---- MODULE Spec2Model ----
(***************************************************************************)
(* Store API (src/main.py): the three read endpoints get_categories,       *)
(* get_products and get_product over a MongoDB handle `db`, with the       *)
(* response models CategoryOut and ProductOut.                             *)
(*                                                                         *)
(* Conventions of the model                                                *)
(*   - Optional[T] is a sequence of length <= 1: <<>> is None, <<v>> is v. *)
(*   - a text that is searched (title, description, a tag, q) and an id    *)
(*     string are sequences of one-character strings; a category name and  *)
(*     a sort name are only compared for equality and are TLA+ strings.    *)
(*   - a stored document is a record whose DOMAIN is the set of fields it  *)
(*     holds; a field the document lacks is not in the DOMAIN.             *)
(*   - rating is kept in tenths (45 is 4.5), prices are whole numbers.     *)
(*   - the _id the store assigns to the i-th inserted document is i; its   *)
(*     string form is OidLen hexadecimal digits (24 in bson).              *)
(***************************************************************************)
EXTENDS Integers, Sequences, FiniteSets, TLC

VARIABLES db,          \* the handle imported from database: "None" or "Database"
          products,    \* db["product"], in insertion (natural) order
          categories,  \* db["category"], in insertion order
          resp         \* the last request and the response it got

vars == <<db, products, categories, resp>>

(***************************************************************************)
(* Bounds                                                                  *)
(***************************************************************************)
MaxDocs == 2      \* documents in the product collection
OidLen == 2       \* hexadecimal digits of an ObjectId string

(***************************************************************************)
(* Program constants                                                       *)
(***************************************************************************)
LimitMin == 1          \* Query(24, ge=1, ...)
LimitMax == 100        \* Query(24, ..., le=100)
PriceMin == 0          \* Query(None, ge=0)
DefaultRating == 45    \* schemas.Product.rating = Field(4.5, ...), in tenths
DefaultReviewsCount == 0   \* schemas.Product.reviews_count = Field(0, ...)

None == <<>>
Some(v) == <<v>>

Min2(a, b) == IF a <= b THEN a ELSE b
Abs(n) == IF n < 0 THEN 0 - n ELSE n

(***************************************************************************)
(* Texts                                                                   *)
(***************************************************************************)
UpperChars == <<"A", "B">>
LowerChars == <<"a", "b">>

\* case folding of one character, as "$options": "i" compares
Lower(c) ==
    IF \E k \in 1..Len(UpperChars) : UpperChars[k] = c
    THEN LowerChars[CHOOSE k \in 1..Len(UpperChars) : UpperChars[k] = c]
    ELSE c

\* the pattern language of "$regex" (PCRE), for the characters of the model:
\* "." matches any one character, "(" opens a group and must be closed, any
\* other character matches itself.
RegexValid(p) == \A k \in 1..Len(p) : p[k] # "("

RegexMatchAt(p, t, i) ==
    /\ i + Len(p) - 1 <= Len(t)
    /\ \A k \in 1..Len(p) : p[k] = "." \/ Lower(p[k]) = Lower(t[i + k - 1])

\* an unanchored, case-insensitive search of pattern p in text t
RegexSearch(p, t) == \E i \in 1..(Len(t) + 1) : RegexMatchAt(p, t, i)

\* {"field": {"$regex": p, "$options": "i"}} on a document: a text field
\* matches when the pattern is found in it, an array field when it is found
\* in one of its elements, a missing field never.
RegexField(d, field, p) ==
    /\ field \in DOMAIN d
    /\ IF field = "tags"
       THEN \E k \in 1..Len(d[field]) : RegexSearch(p, d[field][k])
       ELSE RegexSearch(p, d[field])

(***************************************************************************)
(* ObjectId                                                                *)
(***************************************************************************)
HexDigits == <<"0", "1", "2", "3", "4", "5", "6", "7", "8", "9",
               "a", "b", "c", "d", "e", "f">>
HexUpper == <<"0", "1", "2", "3", "4", "5", "6", "7", "8", "9",
              "A", "B", "C", "D", "E", "F">>

IsHex(c) == \E k \in 1..16 : HexDigits[k] = c \/ HexUpper[k] = c
HexVal(c) == (CHOOSE k \in 1..16 : HexDigits[k] = c \/ HexUpper[k] = c) - 1

\* bson.ObjectId.is_valid for a str: exactly OidLen hexadecimal digits
OidValid(s) == Len(s) = OidLen /\ \A k \in 1..Len(s) : IsHex(s[k])

RECURSIVE OidValue(_)
OidValue(s) ==
    IF Len(s) = 0 THEN 0
    ELSE 16 * OidValue(SubSeq(s, 1, Len(s) - 1)) + HexVal(s[Len(s)])

RECURSIVE HexString(_, _)
HexString(n, width) ==
    IF width = 0 THEN <<>>
    ELSE Append(HexString(n \div 16, width - 1), HexDigits[(n % 16) + 1])

\* str(ObjectId): lower-case hexadecimal, OidLen digits
OidStr(oid) == HexString(oid, OidLen)

(***************************************************************************)
(* The store                                                               *)
(***************************************************************************)
\* the document find() yields for the i-th product: its fields and its _id
StoredProduct(i) == products[i] @@ ("_id" :> i)
StoredCategory(i) == categories[i] @@ ("_id" :> i)

\* _to_id_str: the _id, when there is one, moves to id as a string
ToIdStr(doc) ==
    IF "_id" \in DOMAIN doc
    THEN [f \in (DOMAIN doc \ {"_id"}) \cup {"id"} |->
            IF f = "id" THEN OidStr(doc["_id"]) ELSE doc[f]]
    ELSE doc

(***************************************************************************)
(* Response models                                                         *)
(***************************************************************************)
ProductOutRequired == {"id", "title", "price", "category", "rating", "reviews_count"}
CategoryOutRequired == {"id", "name", "slug"}

Field(d, f, default) == IF f \in DOMAIN d THEN d[f] ELSE default
OptField(d, f) == IF f \in DOMAIN d THEN Some(d[f]) ELSE None

\* ProductOut(**d) raises ValidationError when a field without a default is
\* missing
ProductOutValid(d) == ProductOutRequired \subseteq DOMAIN d

ProductOut(d) ==
    [id |-> d["id"],
     title |-> d["title"],
     description |-> OptField(d, "description"),
     price |-> d["price"],
     category |-> d["category"],
     brand |-> OptField(d, "brand"),
     rating |-> d["rating"],
     reviews_count |-> d["reviews_count"],
     images |-> Field(d, "images", <<>>),
     colors |-> Field(d, "colors", <<>>),
     sizes |-> Field(d, "sizes", <<>>),
     in_stock |-> Field(d, "in_stock", TRUE),
     discount_percent |-> Field(d, "discount_percent", 0),
     tags |-> Field(d, "tags", <<>>)]

CategoryOutValid(d) == CategoryOutRequired \subseteq DOMAIN d

CategoryOut(d) ==
    [id |-> d["id"],
     name |-> d["name"],
     slug |-> d["slug"],
     icon |-> OptField(d, "icon")]

(***************************************************************************)
(* get_products: the query                                                 *)
(***************************************************************************)
\* the truth value Python gives an Optional[str]: None and "" are false
TruthyText(o) == o # None /\ Len(o[1]) > 0
TruthyName(o) == o # None /\ o[1] # ""

\* the dict flt of get_products; a key it does not set is not in the DOMAIN
PriceRange(min_price, max_price) ==
    [k \in (IF min_price # None THEN {"$gte"} ELSE {})
           \cup (IF max_price # None THEN {"$lte"} ELSE {}) |->
        IF k = "$gte" THEN min_price[1] ELSE max_price[1]]

\* faulty variant of BuildFilter: the price range keeps the lower bound only
BuildFilterLowerBoundOnly(q, category, min_price, max_price) ==
    [k \in (IF TruthyText(q) THEN {"$or"} ELSE {})
           \cup (IF TruthyName(category) THEN {"category"} ELSE {})
           \cup (IF min_price # None THEN {"price"} ELSE {}) |->
        CASE k = "$or" -> q[1]
          [] k = "category" -> category[1]
          [] k = "price" -> PriceRange(min_price, None)]

BuildFilter(q, category, min_price, max_price) ==
    [k \in (IF TruthyText(q) THEN {"$or"} ELSE {})
           \cup (IF TruthyName(category) THEN {"category"} ELSE {})
           \cup (IF min_price # None \/ max_price # None THEN {"price"} ELSE {}) |->
        CASE k = "$or" -> q[1]
          [] k = "category" -> category[1]
          [] k = "price" -> PriceRange(min_price, max_price)]

\* faulty variant of SortSpec: price_desc sorts ascending
SortSpecDescAscending(sort) ==
    LET s == IF sort = None THEN "popularity" ELSE sort[1] IN
    IF s = "price_asc" THEN [key |-> "price", dir |-> 1]
    ELSE IF s = "price_desc" THEN [key |-> "price", dir |-> 1]
    ELSE IF s = "rating" THEN [key |-> "rating", dir |-> -1]
    ELSE [key |-> "reviews_count", dir |-> -1]

\* faulty variant of SortSpec: "new" sorts on the _id, latest first
SortSpecNewByRecency(sort) ==
    LET s == IF sort = None THEN "popularity" ELSE sort[1] IN
    IF s = "price_asc" THEN [key |-> "price", dir |-> 1]
    ELSE IF s = "price_desc" THEN [key |-> "price", dir |-> -1]
    ELSE IF s = "rating" THEN [key |-> "rating", dir |-> -1]
    ELSE IF s = "new" THEN [key |-> "_id", dir |-> -1]
    ELSE [key |-> "reviews_count", dir |-> -1]

\* the sort_key, sort_dir chain; an unset sort is the default "popularity"
SortSpec(sort) ==
    LET s == IF sort = None THEN "popularity" ELSE sort[1] IN
    IF s = "price_asc" THEN [key |-> "price", dir |-> 1]
    ELSE IF s = "price_desc" THEN [key |-> "price", dir |-> -1]
    ELSE IF s = "rating" THEN [key |-> "rating", dir |-> -1]
    ELSE [key |-> "reviews_count", dir |-> -1]

\* faulty variant of ValidQuery: limit is declared without ge / le
ValidQueryUnboundedLimit(args) ==
    /\ (args.min_price # None => args.min_price[1] >= PriceMin)
    /\ (args.max_price # None => args.max_price[1] >= PriceMin)

\* the parameter constraints FastAPI enforces before it calls the handler
ValidQuery(args) ==
    /\ args.limit >= LimitMin
    /\ args.limit <= LimitMax
    /\ (args.min_price # None => args.min_price[1] >= PriceMin)
    /\ (args.max_price # None => args.max_price[1] >= PriceMin)

(***************************************************************************)
(* The store's find / sort / limit                                         *)
(***************************************************************************)
\* a document satisfies a filter when it satisfies every key of it
DocMatches(d, flt) ==
    /\ "$or" \in DOMAIN flt =>
          \E f \in {"title", "description", "tags"} : RegexField(d, f, flt["$or"])
    /\ "category" \in DOMAIN flt =>
          "category" \in DOMAIN d /\ d["category"] = flt["category"]
    /\ "price" \in DOMAIN flt =>
          /\ "price" \in DOMAIN d
          /\ "$gte" \in DOMAIN flt["price"] => d["price"] >= flt["price"]["$gte"]
          /\ "$lte" \in DOMAIN flt["price"] => d["price"] <= flt["price"]["$lte"]

\* the server rejects a filter whose pattern does not compile
FilterValid(flt) == "$or" \in DOMAIN flt => RegexValid(flt["$or"])

Matching(flt) == {i \in 1..Len(products) : DocMatches(products[i], flt)}

\* the value a document is sorted on: a missing field sorts as null, below
\* every number
KeyVal(i, key) ==
    IF key \in DOMAIN StoredProduct(i) THEN StoredProduct(i)[key] ELSE -1

Perms(S) ==
    {s \in [1..Cardinality(S) -> S] : \A i, j \in DOMAIN s : i # j => s[i] # s[j]}

\* every order of S that a sort on one key may produce: the server promises
\* no order among documents whose keys are equal
SortedOrders(S, key, dir) ==
    {s \in Perms(S) :
        \A i \in 1..(Len(s) - 1) : dir * KeyVal(s[i], key) <= dir * KeyVal(s[i + 1], key)}

\* cursor.limit(n): 0 is no limit, a negative n counts as its absolute value
Truncate(s, limit) ==
    IF limit = 0 THEN s ELSE SubSeq(s, 1, Min2(Abs(limit), Len(s)))

\* faulty variant of Find: the first `limit` matching documents in natural
\* order are taken and then sorted
FindCutsFirst(flt, key, dir, limit) ==
    LET natural == CHOOSE s \in Perms(Matching(flt)) :
                       \A i, j \in DOMAIN s : i < j => s[i] < s[j]
        kept == Truncate(natural, limit)
    IN  SortedOrders({kept[k] : k \in 1..Len(kept)}, key, dir)

\* find(flt).sort(key, dir).limit(limit): the _ids, in the order delivered.
\* The server sorts all matching documents and then cuts.
Find(flt, key, dir, limit) ==
    {Truncate(s, limit) : s \in SortedOrders(Matching(flt), key, dir)}

(***************************************************************************)
(* Handlers: the outcome of one request                                    *)
(*   status  "ok" a response body, "validation_error" the request was      *)
(*           rejected (422), "error" an exception left the handler (500)   *)
(*   exc     the exception, "" when there is none                          *)
(*   body    the records returned; for get_product <<>> is None            *)
(*   queries the queries sent to the store                                 *)
(*   fault   the store could not be reached when queried                   *)
(***************************************************************************)
Outcome(status, exc, body, queries, fault) ==
    [status |-> status, exc |-> exc, body |-> body, queries |-> queries, fault |-> fault]

ProductRows(cur) ==
    LET rows == [k \in 1..Len(cur) |-> ToIdStr(StoredProduct(cur[k]))] IN
    IF \E k \in 1..Len(cur) : ~ProductOutValid(rows[k])
    THEN Outcome("error", "ValidationError", <<>>, 1, FALSE)
    ELSE Outcome("ok", "", [k \in 1..Len(cur) |-> ProductOut(rows[k])], 1, FALSE)

get_products(args, fault) ==
    IF ~ValidQuery(args)
    THEN {Outcome("validation_error", "RequestValidationError", <<>>, 0, FALSE)}
    ELSE IF db = "None"
    THEN {Outcome("ok", "", <<>>, 0, FALSE)}
    ELSE LET flt == BuildFilter(args.q, args.category, args.min_price, args.max_price)
             sp == SortSpec(args.sort)
         IN  IF fault
             THEN {Outcome("error", "ConnectionFailure", <<>>, 1, TRUE)}
             ELSE IF ~FilterValid(flt)
             THEN {Outcome("error", "OperationFailure", <<>>, 1, FALSE)}
             ELSE {ProductRows(cur) : cur \in Find(flt, sp.key, sp.dir, args.limit)}

\* faulty variant of get_product: no try / except around the lookup
get_product_uncaught(product_id, fault) ==
    IF db = "None"
    THEN Outcome("ok", "", None, 0, FALSE)
    ELSE IF ~OidValid(product_id)
    THEN Outcome("error", "InvalidId", None, 0, FALSE)
    ELSE IF fault
    THEN Outcome("error", "ConnectionFailure", None, 1, TRUE)
    ELSE LET oid == OidValue(product_id) IN
         IF oid \notin 1..Len(products)
         THEN Outcome("ok", "", None, 1, FALSE)
         ELSE LET d == ToIdStr(StoredProduct(oid)) IN
              IF ProductOutValid(d)
              THEN Outcome("ok", "", Some(ProductOut(d)), 1, FALSE)
              ELSE Outcome("error", "ValidationError", None, 1, FALSE)

get_product(product_id, fault) ==
    IF db = "None"
    THEN Outcome("ok", "", None, 0, FALSE)
    ELSE IF ~OidValid(product_id)
    THEN Outcome("ok", "", None, 0, FALSE)                 \* InvalidId, caught
    ELSE IF fault
    THEN Outcome("ok", "", None, 1, TRUE)                  \* caught
    ELSE LET oid == OidValue(product_id) IN
         IF oid \notin 1..Len(products)
         THEN Outcome("ok", "", None, 1, FALSE)            \* find_one gave None
         ELSE LET d == ToIdStr(StoredProduct(oid)) IN
              IF ProductOutValid(d)
              THEN Outcome("ok", "", Some(ProductOut(d)), 1, FALSE)
              ELSE Outcome("ok", "", None, 1, FALSE)       \* ValidationError, caught

\* `if db` asks the handle for its truth value: None is false; a Database
\* is true, or raises NotImplementedError where the driver defines no truth
\* value for it (truth = "raises")
get_categories(truth, fault) ==
    IF db = "None"
    THEN Outcome("ok", "", <<>>, 0, FALSE)
    ELSE IF truth = "raises"
    THEN Outcome("error", "NotImplementedError", <<>>, 0, FALSE)
    ELSE IF fault
    THEN Outcome("error", "ConnectionFailure", <<>>, 1, TRUE)
    ELSE LET rows == [k \in 1..Len(categories) |-> ToIdStr(StoredCategory(k))] IN
         IF \E k \in 1..Len(rows) : ~CategoryOutValid(rows[k])
         THEN Outcome("error", "ValidationError", <<>>, 1, FALSE)
         ELSE Outcome("ok", "", [k \in 1..Len(rows) |-> CategoryOut(rows[k])], 1, FALSE)

(***************************************************************************)
(* Stored documents and request inputs of the model                        *)
(***************************************************************************)
\* product documents: one found by q in its description and in a tag, one
\* q = "A" does not find, with another category and other sort keys, one
\* without a title, and one with title, price and category only. Two stored
\* documents made from the same one tie on every sort key.
ProductDocs ==
    { [title |-> <<"b">>, description |-> <<"A", ".">>, price |-> 2, category |-> "s",
       rating |-> 45, reviews_count |-> 5, tags |-> << <<"b">>, <<"b", "a">> >>],
      [title |-> <<"b">>, price |-> 3, category |-> "S",
       rating |-> 40, reviews_count |-> 9, tags |-> << <<"b">> >>],
      [price |-> 1, category |-> "s", rating |-> 50, reviews_count |-> 7],
      [title |-> <<"a">>, price |-> 1, category |-> "s"] }

\* category collections: a full document and one without icon; a document
\* without slug
CategoryStores ==
    { << [name |-> "s", slug |-> "s", icon |-> "i"], [name |-> "S", slug |-> "t"] >>,
      << [name |-> "S"] >> }

ProductStores == UNION {[1..n -> ProductDocs] : n \in 0..MaxDocs}

QInputs == {None, Some(<<>>), Some(<<"A">>), Some(<<".">>), Some(<<"(">>)}
CategoryInputs == {None, Some(""), Some("s")}
MinPriceInputs == {None, Some(0), Some(2)}
MaxPriceInputs == {None, Some(-1), Some(2)}
SortInputs == {None, Some("new"), Some("bogus"),
               Some("price_asc"), Some("price_desc"), Some("rating")}
LimitInputs == {-1, 0, 1, 2, LimitMax, LimitMax + 1}

\* identifiers asked of get_product: the id of every document the store can
\* hold, of one it cannot, the same in upper case, and malformed ones
IdInputs ==
    {OidStr(i) : i \in 1..(MaxDocs + 1)}
        \cup {[k \in 1..OidLen |-> "A"], [k \in 1..OidLen |-> "z"],
              [k \in 1..(OidLen - 1) |-> "1"], [k \in 1..(OidLen + 1) |-> "0"], <<>>}

Faults == IF db = "None" THEN {FALSE} ELSE BOOLEAN

Idle == [op |-> "idle", args |-> <<>>, status |-> "ok", exc |-> "",
         body |-> <<>>, queries |-> 0, fault |-> FALSE]

Response(op, args, out) ==
    [op |-> op, args |-> args, status |-> out.status, exc |-> out.exc,
     body |-> out.body, queries |-> out.queries, fault |-> out.fault]

(***************************************************************************)
(* The state machine                                                       *)
(***************************************************************************)
\* the handle is None when no database is configured, and then there is no
\* store; otherwise the collections hold whatever the database holds, the
\* category collection at least one document (_ensure_seed fills an empty
\* one at start; the product collection may be emptied by others later)
Init ==
    /\ db \in {"None", "Database"}
    /\ products \in ProductStores
    /\ categories \in CategoryStores \cup {<<>>}
    /\ (db = "None") = (categories = <<>>)
    /\ db = "None" => products = <<>>
    /\ resp = Idle

\* a request is taken when the previous response is out
GetProducts ==
    /\ resp.op = "idle"
    /\ \E q \in QInputs, category \in CategoryInputs, min_price \in MinPriceInputs,
       max_price \in MaxPriceInputs, sort \in SortInputs, limit \in LimitInputs,
       fault \in Faults :
        LET args == [q |-> q, category |-> category, min_price |-> min_price,
                     max_price |-> max_price, sort |-> sort, limit |-> limit]
        IN  /\ \E out \in get_products(args, fault) :
                  resp' = Response("get_products", args, out)
            /\ UNCHANGED <<db, products, categories>>

GetProduct ==
    /\ resp.op = "idle"
    /\ \E product_id \in IdInputs, fault \in Faults :
        /\ resp' = Response("get_product", [product_id |-> product_id],
                            get_product(product_id, fault))
        /\ UNCHANGED <<db, products, categories>>

GetCategories ==
    /\ resp.op = "idle"
    /\ \E truth \in {"true", "raises"}, fault \in Faults :
        /\ resp' = Response("get_categories", <<>>, get_categories(truth, fault))
        /\ UNCHANGED <<db, products, categories>>

\* the application sends the response and is ready for the next request
Deliver ==
    /\ resp.op # "idle"
    /\ resp' = Idle
    /\ UNCHANGED <<db, products, categories>>

Next == GetProducts \/ GetProduct \/ GetCategories \/ Deliver

Spec == Init /\ [][Next]_vars

(***************************************************************************)
(* Vocabulary of the properties                                            *)
(***************************************************************************)
Listed == resp.op = "get_products"
Looked == resp.op = "get_product"
Answered == resp.status = "ok"
InRange(limit) == limit >= LimitMin /\ limit <= LimitMax

\* t holds q as a plain substring, letters compared without case
Contains(t, q) ==
    \E i \in 1..(Len(t) + 1) :
        /\ i + Len(q) - 1 <= Len(t)
        /\ \A k \in 1..Len(q) : Lower(q[k]) = Lower(t[i + k - 1])

DocContains(d, q) ==
    \/ "title" \in DOMAIN d /\ Contains(d["title"], q)
    \/ "description" \in DOMAIN d /\ Contains(d["description"], q)
    \/ "tags" \in DOMAIN d /\ \E k \in 1..Len(d["tags"]) : Contains(d["tags"][k], q)

\* the q condition on a returned record: q is found in its title, its
\* description or one of its tags
RecordFound(r, q) ==
    \/ RegexSearch(q, r.title)
    \/ r.description # None /\ RegexSearch(q, r.description[1])
    \/ \E k \in 1..Len(r.tags) : RegexSearch(q, r.tags[k])

\* the place in the store of the document a returned record came from
PlaceOf(r) == CHOOSE i \in 1..Len(products) : OidStr(i) = r.id
Places == {PlaceOf(resp.body[k]) : k \in 1..Len(resp.body)}

PriceOk(r, a) ==
    /\ a.min_price # None => r.price >= a.min_price[1]
    /\ a.max_price # None => r.price <= a.max_price[1]

NoFilter(a) ==
    a.q = None /\ a.category = None /\ a.min_price = None /\ a.max_price = None

C2_LimitBoundsOrRejects ==
    Listed =>
        IF InRange(resp.args.limit)
        THEN /\ Len(resp.body) <= resp.args.limit
             /\ resp.status = "validation_error" =>
                   \/ resp.args.min_price # None /\ resp.args.min_price[1] < PriceMin
                   \/ resp.args.max_price # None /\ resp.args.max_price[1] < PriceMin
        ELSE /\ resp.status = "validation_error"
             /\ resp.queries = 0
             /\ resp.body = <<>>

\* a limit of 1 cut a listing of a store of more documents
C2_Witness ==
    /\ Listed /\ Answered /\ NoFilter(resp.args)
    /\ resp.args.limit = LimitMin
    /\ Len(resp.body) = 1 /\ Len(products) >= 2

(***************************************************************************)
(* C3                                                                      *)
(***************************************************************************)
\* C3: for a non-empty q, whatever its characters, the listing is answered
\* and a document is matched if and only if its title, its description or
\* one of its tags contains q as a plain case-insensitive substring. (Stated
\* for q alone and a limit that cuts nothing, so that the records returned
\* are the documents matched.)
C3_PlainSubstring ==
    (/\ Listed /\ db = "Database" /\ ~resp.fault
     /\ TruthyText(resp.args.q) /\ resp.args.category = None
     /\ resp.args.min_price = None /\ resp.args.max_price = None
     /\ resp.args.limit = LimitMax)
    => /\ resp.exc # "OperationFailure"
       /\ Answered =>
             Places = {i \in 1..Len(products) : DocContains(products[i], resp.args.q[1])}

(***************************************************************************)
(* C4                                                                      *)
(***************************************************************************)
\* C4: a stored document that fails projection is skipped: the listing is
\* never aborted by a ValidationError, and it returns the valid documents.
C4_BadDocumentSkipped ==
    Listed =>
        /\ resp.exc # "ValidationError"
        /\ (NoFilter(resp.args) /\ InRange(resp.args.limit) /\ db = "Database"
               /\ ~resp.fault /\ resp.args.limit = LimitMax) =>
              /\ Answered
              /\ Places = {i \in 1..Len(products) :
                              ProductOutValid(ToIdStr(StoredProduct(i)))}

(***************************************************************************)
(* C5                                                                      *)
(***************************************************************************)
\* an identifier string with its hexadecimal letters in lower case
FoldHex(s) ==
    [k \in 1..Len(s) |->
        IF \E j \in 1..16 : HexUpper[j] = s[k]
        THEN HexDigits[CHOOSE j \in 1..16 : HexUpper[j] = s[k]]
        ELSE s[k]]

Malformed(s) == Len(s) # OidLen \/ \E k \in 1..Len(s) : ~IsHex(s[k])

\* the places of the store whose document has the identifier s
HoldersOf(s) == {i \in 1..Len(products) : OidStr(i) = FoldHex(s)}

\* C5: get_product never answers with an error; it returns one record or
\* absence, and absence when the identifier is malformed, when no document
\* has it, and when the document found fails projection; a record returned
\* is the projection of the document that has the identifier.
C5_RecordOrAbsence ==
    Looked =>
        /\ Answered /\ resp.exc = ""
        /\ Len(resp.body) <= 1
        /\ Malformed(resp.args.product_id) => resp.body = None
        /\ HoldersOf(resp.args.product_id) = {} => resp.body = None
        /\ \A i \in HoldersOf(resp.args.product_id) :
              IF {"title", "price", "category", "rating", "reviews_count"}
                    \subseteq DOMAIN products[i] /\ ~resp.fault
              THEN /\ resp.body # None
                   /\ resp.body[1].id = FoldHex(resp.args.product_id)
                   /\ resp.body[1].title = products[i]["title"]
                   /\ resp.body[1].price = products[i]["price"]
              ELSE resp.body = None

\* the document asked for is in the store and has no title: absence
C5_Witness ==
    /\ Looked /\ Answered /\ resp.body = None /\ ~resp.fault
    /\ resp.queries = 1
    /\ \E i \in HoldersOf(resp.args.product_id) : "title" \notin DOMAIN products[i]

(***************************************************************************)
(* C6                                                                      *)
(***************************************************************************)
\* C6: when the store cannot be reached (the handle is None, or a query
\* raises a connectivity fault), get_products and get_categories answer with
\* the empty sequence and get_product with absence; no fault reaches the
\* caller.
C6_UnreachableStoreDegrades ==
    (/\ resp.op \in {"get_products", "get_categories", "get_product"}
     /\ resp.status # "validation_error"
     /\ db = "None" \/ resp.fault)
    => /\ Answered
       /\ resp.body = <<>>

(***************************************************************************)
(* C7                                                                      *)
(***************************************************************************)
SortName(a) == IF a.sort = None THEN "popularity" ELSE a.sort[1]

\* the returned sequence is in order on the key the sort names
OrderedOnKey ==
    \A i, j \in 1..Len(resp.body) :
        i < j =>
            /\ SortName(resp.args) = "price_asc" => resp.body[i].price <= resp.body[j].price
            /\ SortName(resp.args) = "price_desc" => resp.body[i].price >= resp.body[j].price
            /\ SortName(resp.args) = "rating" => resp.body[i].rating >= resp.body[j].rating

\* returned documents with equal key are in their store order
TiesInStoreOrder ==
    \A i, j \in 1..Len(resp.body) :
        i < j =>
            /\ (SortName(resp.args) \in {"price_asc", "price_desc"}
                   /\ resp.body[i].price = resp.body[j].price)
                  => PlaceOf(resp.body[i]) < PlaceOf(resp.body[j])
            /\ (SortName(resp.args) = "rating"
                   /\ resp.body[i].rating = resp.body[j].rating)
                  => PlaceOf(resp.body[i]) < PlaceOf(resp.body[j])

\* C7 as stated: with price_asc prices are non-decreasing, with price_desc
\* non-increasing, with rating ratings are non-increasing, and documents with
\* equal key keep their store order.
C7_OrderedAndStable ==
    (Listed /\ Answered) => (OrderedOnKey /\ TiesInStoreOrder)

\* C7 amended: the returned sequence is ordered on the declared key; nothing
\* is promised about the order of documents with equal key.
C7_Ordered ==
    (Listed /\ Answered) => OrderedOnKey

\* price_asc brought the cheaper document, stored second, to the front
C7_Witness ==
    /\ Listed /\ Answered /\ SortName(resp.args) = "price_asc"
    /\ Len(resp.body) = 2
    /\ resp.body[1].price < resp.body[2].price
    /\ PlaceOf(resp.body[1]) > PlaceOf(resp.body[2])

(***************************************************************************)
(* C8                                                                      *)
(***************************************************************************)
OutcomeOf(r) ==
    [status |-> r.status, exc |-> r.exc, body |-> r.body,
     queries |-> r.queries, fault |-> r.fault]

\* C8: with sort "new", unset, or any string other than price_asc,
\* price_desc and rating, the response is one the same request with
\* sort = "popularity" gives: descending by reviews_count; the sort value
\* is never a reason to reject the request.
C8_FallsBackToPopularity ==
    (Listed /\ SortName(resp.args) \notin {"price_asc", "price_desc", "rating"}) =>
        /\ OutcomeOf(resp) \in
              get_products([resp.args EXCEPT !.sort = Some("popularity")], resp.fault)
        /\ Answered =>
              \A i, j \in 1..Len(resp.body) :
                  i < j => resp.body[i].reviews_count >= resp.body[j].reviews_count
        /\ resp.status = "validation_error" =>
              \/ ~InRange(resp.args.limit)
              \/ resp.args.min_price # None /\ resp.args.min_price[1] < PriceMin
              \/ resp.args.max_price # None /\ resp.args.max_price[1] < PriceMin

\* an unrecognized sort brought the more reviewed document, stored second,
\* to the front
C8_Witness ==
    /\ Listed /\ Answered /\ resp.args.sort = Some("bogus")
    /\ Len(resp.body) = 2
    /\ resp.body[1].reviews_count > resp.body[2].reviews_count
    /\ PlaceOf(resp.body[1]) > PlaceOf(resp.body[2])

(***************************************************************************)
(* C9                                                                      *)
(***************************************************************************)
\* C9: projecting a stored document that has title, price and category
\* succeeds, and every field it lacks takes the declared default: rating
\* 4.5, reviews_count 0, in_stock true, discount_percent 0, the empty
\* sequence for images, colors, sizes and tags.
C9_DefaultsApplied ==
    (Looked /\ ~resp.fault) =>
        \A i \in HoldersOf(resp.args.product_id) :
            {"title", "price", "category"} \subseteq DOMAIN products[i] =>
                /\ resp.body # None
                /\ resp.body[1].rating = Field(products[i], "rating", DefaultRating)
                /\ resp.body[1].reviews_count =
                      Field(products[i], "reviews_count", DefaultReviewsCount)
                /\ resp.body[1].in_stock = Field(products[i], "in_stock", TRUE)
                /\ resp.body[1].discount_percent = Field(products[i], "discount_percent", 0)
                /\ resp.body[1].images = Field(products[i], "images", <<>>)
                /\ resp.body[1].colors = Field(products[i], "colors", <<>>)
                /\ resp.body[1].sizes = Field(products[i], "sizes", <<>>)
                /\ resp.body[1].tags = Field(products[i], "tags", <<>>)

(***************************************************************************)
(* C10                                                                     *)
(***************************************************************************)
\* the documents of the store that satisfy the request's conditions
Eligible(a) ==
    {i \in 1..Len(products) :
        /\ TruthyText(a.q) =>
              \E f \in {"title", "description", "tags"} : RegexField(products[i], f, a.q[1])
        /\ TruthyName(a.category) =>
              "category" \in DOMAIN products[i] /\ products[i]["category"] = a.category[1]
        /\ a.min_price # None =>
              "price" \in DOMAIN products[i] /\ products[i]["price"] >= a.min_price[1]
        /\ a.max_price # None =>
              "price" \in DOMAIN products[i] /\ products[i]["price"] <= a.max_price[1]}

\* document i comes strictly before document j in the resolved order
StrictlyBefore(i, j, a) ==
    CASE SortName(a) = "price_asc" -> KeyVal(i, "price") < KeyVal(j, "price")
      [] SortName(a) = "price_desc" -> KeyVal(i, "price") > KeyVal(j, "price")
      [] SortName(a) = "rating" -> KeyVal(i, "rating") > KeyVal(j, "rating")
      [] OTHER -> KeyVal(i, "reviews_count") > KeyVal(j, "reviews_count")

\* C10: the cut follows the sort: the response holds min(limit, n) of the n
\* matching documents, each once, and no matching document left out comes
\* strictly before a returned one in the resolved order.
C10_CutAfterSort ==
    (Listed /\ Answered /\ db = "Database") =>
        /\ Len(resp.body) = Min2(resp.args.limit, Cardinality(Eligible(resp.args)))
        /\ Places \subseteq Eligible(resp.args)
        /\ Cardinality(Places) = Len(resp.body)
        /\ \A m \in Eligible(resp.args) \ Places :
              \A r \in Places : ~StrictlyBefore(m, r, resp.args)

\* a limit of 1 on two matching documents returned the one stored second,
\* which sorts first
C10_Witness ==
    /\ Listed /\ Answered /\ resp.args.limit = LimitMin
    /\ Cardinality(Eligible(resp.args)) = 2
    /\ Places = {2}
    /\ StrictlyBefore(2, 1, resp.args)

====
